---- MODULE Spec2Model ----
(***************************************************************************)
(* Model of the attack-pattern analysis engine of ieLabsPortal             *)
(* (src/ml_analyzer.py): the AttackPatternAnalyzer object, the model store *)
(* under MODEL_DIR and the orchestrator train_models_on_attack_data.       *)
(*                                                                         *)
(* A table (pandas DataFrame) is a record [cols, rows]: the set of column  *)
(* names and the sequence of rows.  A missing cell (None / NaN) is the     *)
(* value NaN.  A timestamp is an instant counted in units of 1/UnitsPerDay *)
(* of a day, so that Timedelta.days (a truncation to whole days) is not    *)
(* the identity.  Wall-clock time `now` is counted in seconds, the         *)
(* resolution of the strftime format used for artifact names.              *)
(***************************************************************************)
EXTENDS Integers, Sequences, FiniteSets, TLC

\* ------------------------------------------------------------------ bounds
MaxRows == 3
MaxTime == 2
UnitsPerDay == 2
MaxNow == 1
MaxFits == 2
MaxCopies == 5
MaxScored == 2
MaxScore == 2
MaxSpanDays == 15
MaxMagnitude == 20

\* ------------------------------------------------------- program constants
DefaultTimespanDays == 30
DefaultMinAttacks == 5
MinSamples == 5
PeriodicityDays == 14

NaN == "NaN"
\* the missing instant
NaT == 0 - 1
Unknown == "unknown"

categorical_features == {"attack_type", "source_country", "target_country", "data_source"}
numerical_features == {"source_latitude", "source_longitude", "target_latitude", "target_longitude"}

StructuralCols == {"source_country", "target_country", "attack_type", "timestamp"}
TimeDerivedCols == {"hour_of_day", "day_of_week", "month", "year", "weekend"}

ModelTypes == {"clustering", "anomaly", "prediction"}

\* ------------------------------------------------------------ input tables
\* the events: a known source, and one whose source is missing
KeySet == {<<"CN", "US", "Phishing">>, <<NaN, "US", "DDoS">>}

RowSet ==
  {[source_country |-> k[1], target_country |-> k[2], attack_type |-> k[3],
    timestamp |-> t] : k \in KeySet, t \in 0..MaxTime}

SeqsUpTo(S, n) == UNION {[1..k -> S] : k \in 0..n}

\* the table without column c: the cell of c is absent in every row
DropColumn(t, c) ==
  [cols |-> t.cols \ {c},
   rows |-> [i \in 1..Len(t.rows) |->
               [t.rows[i] EXCEPT ![c] = IF c = "timestamp" THEN NaT ELSE NaN]]]

FullTables == {[cols |-> StructuralCols, rows |-> r] : r \in SeqsUpTo(RowSet, MaxRows)}

\* the tables that lack one structural column have at most two rows
Tables ==
  FullTables \cup
  {DropColumn(t, c) : t \in {u \in FullTables : Len(u.rows) <= 2}, c \in StructuralCols}

TimespanDaysSet == {0, 1}
MinAttacksSet == {1, 2}

\* the stored Attack entity of an event: located, of high severity, reported
\* by data_source
EntityFrom(row, id, data_source) ==
  [id |-> id, attack_type |-> row.attack_type, source_country |-> row.source_country,
   target_country |-> row.target_country,
   source_latitude |-> [nan |-> FALSE, num |-> 0, den |-> 1],
   source_longitude |-> [nan |-> FALSE, num |-> 0, den |-> 1],
   target_latitude |-> [nan |-> FALSE, num |-> 0, den |-> 1],
   target_longitude |-> [nan |-> FALSE, num |-> 0, den |-> 1],
   timestamp |-> row.timestamp, severity |-> "High", data_source |-> data_source,
   created_at |-> 0, updated_at |-> 0]

Entities(rows) == [i \in 1..Len(rows) |-> EntityFrom(rows[i], i, "Kaspersky")]

\* ------------------------------------------------------------------- state
VARIABLES
  df,                \* the caller's table
  db,                \* the stored Attack entities the orchestrator reads
  clustering_model,  \* analyzer slots: None or an artifact
  anomaly_model,
  prediction_model,
  features,          \* self.features: the known-features list
  store,             \* MODEL_DIR: file name -> artifact
  now,               \* wall clock, seconds
  fits,              \* history: one entry per pipeline fitted so far
  calls,             \* history: analyzer operations entered by the last call
  inputs,            \* history: the tables the last call gave to preprocess_data
  preprocessor,      \* history: the ColumnTransformer the last call built
  memo,              \* history: the last campaign list computed for df
  result             \* what the last call returned (or raised)

vars == <<df, db, clustering_model, anomaly_model, prediction_model, features,
          store, now, fits, calls, inputs, preprocessor, memo, result>>

None == [kind |-> "None"]

\* DataFrame.empty
IsEmpty(t) == Len(t.rows) = 0 \/ t.cols = {}

\* ------------------------------------------------------------ preprocessing
\* A cell of a numeric column is a number num/den or the missing value.
Missing == [nan |-> TRUE, num |-> 0, den |-> 1]
Number(n, d) == [nan |-> FALSE, num |-> n, den |-> d]

\* the present values of column c, in row order
PresentValues(rows, c) ==
  SelectSeq([i \in 1..Len(rows) |-> rows[i][c]], LAMBDA v : ~v.nan)

RECURSIVE InsertNumber(_, _)
InsertNumber(v, sorted) ==
  IF sorted = <<>> THEN <<v>>
  ELSE IF Head(sorted).num <= v.num
       THEN <<Head(sorted)>> \o InsertNumber(v, Tail(sorted))
       ELSE <<v>> \o sorted

RECURSIVE SortNumbers(_)
SortNumbers(vals) ==
  IF vals = <<>> THEN <<>> ELSE InsertNumber(Head(vals), SortNumbers(Tail(vals)))

Half(k) == IF k % 2 = 0 THEN Number(k \div 2, 1) ELSE Number(k, 2)

\* Series.median(): missing values skipped; of no value at all, missing
Median(vals) ==
  IF vals = <<>> THEN Missing
  ELSE LET s == SortNumbers(vals)
           n == Len(s)
       IN IF n % 2 = 1 THEN s[(n + 1) \div 2]
          ELSE Half(s[n \div 2].num + s[n \div 2 + 1].num)

\* data[col].fillna(data[col].median()); filling with a missing median fills nothing
FillNumerical(t, rows, row) ==
  [c \in DOMAIN row |->
     IF c \in numerical_features /\ c \in t.cols
     THEN (IF row[c].nan THEN Median(PresentValues(rows, c)) ELSE row[c])
     ELSE row[c]]

FillCategorical(t, row) ==
  [c \in DOMAIN row |->
     IF c \in categorical_features /\ c \in t.cols /\ row[c] = NaN
     THEN Unknown ELSE row[c]]

\* the rows without those that hold a missing categorical value
RowsWithoutMissing(t) ==
  SelectSeq(t.rows, LAMBDA r : \A c \in t.cols \cap categorical_features : r[c] # NaN)
\* data = df.copy()
CopyRows(t) == t.rows

FrequencyCols == {"source_country", "attack_type"}
FrequencyName ==
  [source_country |-> "source_country_frequency", attack_type |-> "attack_type_frequency"]
CountedCol(name) == CHOOSE c \in FrequencyCols : FrequencyName[c] = name

\* a count that leaves the imputed rows out
ValueCountsDropUnknown(rows, c, v) ==
  IF v = Unknown THEN 0 ELSE Cardinality({j \in 1..Len(rows) : rows[j][c] = v})
\* data[c].value_counts()[v]
ValueCounts(rows, c, v) == Cardinality({j \in 1..Len(rows) : rows[j][c] = v})

\* data[c + '_frequency'] = data[c].map(data[c].value_counts())
WithFrequencies(t, rows, row) ==
  LET added == {FrequencyName[c] : c \in FrequencyCols \cap t.cols} IN
  [c \in DOMAIN row \cup added |->
     IF c \in added THEN ValueCounts(rows, CountedCol(c), row[CountedCol(c)])
     ELSE row[c]]

EmptyTable == [cols |-> {}, rows |-> <<>>]

\* the columns of the engineered table: those of the input, the time parts
\* and the two frequencies
EngineeredCols(t) ==
  t.cols
    \cup (IF "timestamp" \in t.cols THEN TimeDerivedCols ELSE {})
    \cup {FrequencyName[c] : c \in FrequencyCols \cap t.cols}

\* the engineered table returned by preprocess_data; pd.DataFrame() for an
\* empty input
preprocess_data(t) ==
  IF IsEmpty(t) THEN EmptyTable ELSE
  LET data   == CopyRows(t)
      filled == [i \in 1..Len(data) |-> FillCategorical(t, FillNumerical(t, data, data[i]))]
  IN [cols |-> EngineeredCols(t),
      rows |-> [i \in 1..Len(filled) |-> WithFrequencies(t, filled, filled[i])]]

\* the tables handed to preprocess_data alone: two categorical columns and a
\* numeric one, each cell present or missing
PreCols == {"source_country", "attack_type", "source_latitude", "timestamp"}

PreRowSet ==
  {[source_country |-> s, attack_type |-> a, source_latitude |-> l, timestamp |-> 0] :
     s \in {"CN", NaN}, a \in {"DDoS", NaN}, l \in {Missing, Number(0, 1), Number(1, 1)}}

PreTables == {[cols |-> PreCols, rows |-> r] : r \in SeqsUpTo(PreRowSet, MaxRows)}

\* ---------------------------------------------------------------- campaigns
\* Python's ordering of the strings that occur as group keys
StrOrder == <<"CN", "DDoS", "High", "Phishing", "US", "unknown">>

Rank(s) == CHOOSE i \in 1..Len(StrOrder) : StrOrder[i] = s

KeyOf(row) == <<row.source_country, row.target_country, row.attack_type>>

\* lexicographic order of the key tuples (groupby sorts its keys)
KeyLess(a, b) ==
  \/ Rank(a[1]) < Rank(b[1])
  \/ a[1] = b[1] /\ Rank(a[2]) < Rank(b[2])
  \/ a[1] = b[1] /\ a[2] = b[2] /\ Rank(a[3]) < Rank(b[3])

RECURSIVE SortedKeys(_)
SortedKeys(S) ==
  IF S = {} THEN <<>>
  ELSE LET k == CHOOSE x \in S : \A y \in S \ {x} : KeyLess(x, y)
       IN <<k>> \o SortedKeys(S \ {k})

GroupKeys(data) == SortedKeys({KeyOf(data.rows[i]) : i \in 1..Len(data.rows)})

RowsOfKey(data, k) == SelectSeq(data.rows, LAMBDA r : KeyOf(r) = k)

MinTimestamp(group) ==
  CHOOSE m \in {group[i].timestamp : i \in 1..Len(group)} :
    \A i \in 1..Len(group) : m <= group[i].timestamp

MaxTimestamp(group) ==
  CHOOSE m \in {group[i].timestamp : i \in 1..Len(group)} :
    \A i \in 1..Len(group) : m >= group[i].timestamp

\* Timedelta.days of (max - min): whole days, the remainder dropped
campaign_timespan(group) == (MaxTimestamp(group) - MinTimestamp(group)) \div UnitsPerDay

MaxOf(a, b) == IF a >= b THEN a ELSE b

\* the division without its guard against a zero span
AttackFrequencyNoGuard(group) == [num |-> Len(group), den |-> campaign_timespan(group)]
\* attack_frequency = len(group) / max(campaign_timespan, 1), kept as a fraction
attack_frequency(group) == [num |-> Len(group), den |-> MaxOf(campaign_timespan(group), 1)]

\* group[c].unique().tolist(): the values in the order they first appear
RECURSIVE Unique(_, _)
Unique(group, c) ==
  IF group = <<>> THEN <<>>
  ELSE LET rest == Unique(Tail(group), c) IN
       <<Head(group)[c]>> \o SelectSeq(rest, LAMBDA v : v # Head(group)[c])

\* group[c].mode()[0]: of the most frequent present values, the first in order
Mode(group, c) ==
  LET present == {group[i][c] : i \in 1..Len(group)} \ {NaN}
      count(v) == Cardinality({i \in 1..Len(group) : group[i][c] = v})
      modes == {v \in present : \A u \in present : count(u) <= count(v)}
  IN CHOOSE v \in modes : \A u \in modes : Rank(v) <= Rank(u)

Campaign(data, k) ==
  LET group == RowsOfKey(data, k) IN
  [source_country |-> k[1], target_country |-> k[2], attack_type |-> k[3],
   attack_count |-> Len(group),
   start_date |-> MinTimestamp(group) \div UnitsPerDay,
   end_date |-> MaxTimestamp(group) \div UnitsPerDay,
   timespan_days |-> campaign_timespan(group),
   attack_frequency |-> attack_frequency(group),
   data_sources |-> IF "data_source" \in data.cols THEN Unique(group, "data_source")
                    ELSE <<>>,
   severity |-> IF "severity" \in data.cols
                   /\ ~(\A i \in 1..Len(group) : group[i].severity = NaN)
                THEN Mode(group, "severity") ELSE "Unknown"]

\* the size test alone
KeepsGroupNoSpan(group, timespan_days, min_attacks) ==
  ~(Len(group) < min_attacks)
\* the two tests of the loop body: a group is kept when neither skips it
KeepsGroup(group, timespan_days, min_attacks) ==
  /\ ~(Len(group) < min_attacks)
  /\ campaign_timespan(group) <= timespan_days

RECURSIVE CollectCampaigns(_, _, _, _)
CollectCampaigns(data, keys, timespan_days, min_attacks) ==
  IF keys = <<>> THEN <<>>
  ELSE LET k == Head(keys)
           rest == CollectCampaigns(data, Tail(keys), timespan_days, min_attacks)
       IN IF KeepsGroup(RowsOfKey(data, k), timespan_days, min_attacks)
          THEN <<Campaign(data, k)>> \o rest
          ELSE rest

\* list.sort(key=attack_count, reverse=True): stable, equal counts keep their order
RECURSIVE InsertByCount(_, _)
InsertByCount(c, sorted) ==
  IF sorted = <<>> THEN <<c>>
  ELSE IF Head(sorted).attack_count >= c.attack_count
       THEN <<Head(sorted)>> \o InsertByCount(c, Tail(sorted))
       ELSE <<c>> \o sorted

RECURSIVE SortByAttackCountFrom(_, _)
SortByAttackCountFrom(cs, acc) ==
  IF cs = <<>> THEN acc
  ELSE SortByAttackCountFrom(Tail(cs), InsertByCount(Head(cs), acc))

\* the list left in group order
Unsorted(cs) == cs
\* list.sort(key=attack_count, reverse=True)
SortByAttackCount(cs) == SortByAttackCountFrom(cs, <<>>)

\* ------------------------------------------------------------------ results
\* the call returned, and returned success
Succeeded(r) == ~r.raised /\ r.success

\* {'success': False, 'message': msg}
Failure(op, msg) == [op |-> op, raised |-> FALSE, success |-> FALSE, message |-> msg]

\* an exception that leaves the call instead of a result
Uncaught(op, msg) == [op |-> op, raised |-> TRUE, message |-> msg]

\* except Exception as e: return {'success': False, 'message': str(e)}
Caught(op, msg) == Failure(op, msg)

\* a failure that says nothing
NoDataSilent == ""
\* the message of the empty-table guard
NoDataMessage == "No data provided"

\* str(e) of the exceptions the libraries raise
FitError == "could not convert string to float"
SplitError == "the resulting train set will be empty"
DumpError == "[Errno 13] Permission denied"
ScoreError == "could not convert string to float"
NaNError == "Input X contains NaN"
ProbaError == "This 'Pipeline' has no attribute 'predict_proba'"
DbError == "database is locked"
MissingColumnsError == "columns are missing"

Faults == {"none", "fit", "persist"}

\* ----------------------------------------------------- the analyzer's world
\* The analyzer's fields, the model store and the histories, as one record, so
\* that an operation can run on the caller's analyzer or on the orchestrator's.
World ==
  [clustering_model |-> clustering_model, anomaly_model |-> anomaly_model,
   prediction_model |-> prediction_model, features |-> features,
   store |-> store, fits |-> fits, calls |-> <<>>, inputs |-> <<>>,
   preprocessor |-> None, result |-> result]

\* AttackPatternAnalyzer(): empty slots, the shared store
NewAnalyzer(w) ==
  [w EXCEPT !.clustering_model = None, !.anomaly_model = None,
            !.prediction_model = None, !.features = {}]

Enter(w, op) == [w EXCEPT !.calls = Append(@, op)]

\* a component that goes on without calling preprocess_data
SkipsPreprocess(w, t) == w
\* data = self.preprocess_data(df), which records self.features unless df is empty
Preprocessed(w, t) ==
  LET w1 == [Enter(w, "preprocess_data") EXCEPT !.inputs = Append(@, t)] IN
  IF IsEmpty(t) THEN w1 ELSE [w1 EXCEPT !.features = EngineeredCols(t)]

\* ---------------------------------------------------------- column routing
\* the columns whose cells are strings
StringCols == categorical_features \cup {"severity", "source"}

NotFeatures == {"id", "timestamp", "created_at", "updated_at"}

\* feature_cols = [col for col in data.columns if col not in [...]]
feature_cols(w, type) ==
  w.features \ (NotFeatures \cup (IF type = "prediction" THEN {"target_country"} ELSE {}))

\* [col for col in self.categorical_features if col in feature_cols]
categorical_cols(cols) == categorical_features \cap cols

\* [col for col in data.columns if col not in categorical_cols and col in feature_cols]
numerical_cols(cols) == cols \ categorical_cols(cols)

\* ColumnTransformer([('num', StandardScaler(), numerical_cols),
\*                    ('cat', OneHotEncoder(handle_unknown='ignore'), categorical_cols)])
ColumnTransformer(cols) == [num |-> numerical_cols(cols), cat |-> categorical_cols(cols)]

WithPreprocessor(w, type) ==
  [w EXCEPT !.preprocessor = ColumnTransformer(feature_cols(w, type))]

\* StandardScaler is given a column of strings
ScalesStrings(w) == w.preprocessor.num \cap StringCols # {}

\* A path is a directory and a file name in it; the directory "." is the
\* working directory, against which a bare file name is resolved.
MODEL_DIR == "models"
WorkingDir == "."

\* os.path.join(MODEL_DIR, f'{type}_model_{now:%Y%m%d_%H%M%S}.joblib')
FileName(type, time) == [dir |-> MODEL_DIR, type |-> type, stamp |-> time]

\* an entry of os.listdir: the name of the file without its directory
BaseName(path) == [path EXCEPT !.dir = WorkingDir]

Put(s, name, art) ==
  [n \in DOMAIN s \cup {name} |-> IF n = name THEN art ELSE s[n]]

\* every pipeline put in the prediction slot
SetSlotPrediction(w, type, art) == [w EXCEPT !.prediction_model = art]
\* self.<type>_model = pipeline
SetSlot(w, type, art) ==
  CASE type = "clustering" -> [w EXCEPT !.clustering_model = art]
    [] type = "anomaly"    -> [w EXCEPT !.anomaly_model = art]
    [] type = "prediction" -> [w EXCEPT !.prediction_model = art]

\* pipeline.fit; self.<slot> = pipeline; the fitted step is read or asked for
\* scores; joblib.dump(pipeline, model_filename)
FitAndPersist(w, op, type, fault, time) ==
  IF fault = "fit" \/ ScalesStrings(w) THEN [w EXCEPT !.result = Caught(op, FitError)]
  ELSE LET art  == [kind |-> type, fit |-> Len(w.fits) + 1,
                    columns |-> w.preprocessor.num \cup w.preprocessor.cat]
           name == FileName(type, time)
           w1   == SetSlot(w, type, art)
       IN IF fault \in {"score", "persist"}
          THEN [w1 EXCEPT !.fits = Append(@, [type |-> type, model_filename |-> name,
                                               saved |-> FALSE]),
                          !.result = Caught(op, IF fault = "score" THEN ScoreError
                                                ELSE DumpError)]
          ELSE [w1 EXCEPT !.store = Put(@, name, art),
                          !.fits = Append(@, [type |-> type, model_filename |-> name,
                                               saved |-> TRUE]),
                          !.result = [op |-> op, raised |-> FALSE, success |-> TRUE,
                                      model_filename |-> name]]

\* a missing numeric value left in the engineered table
LeaksNaN(data) ==
  \E i \in 1..Len(data.rows) : \E c \in data.cols \cap numerical_features :
    data.rows[i][c].nan

\* DBSCAN(eps=0.5, min_samples=5) on the scaled and one-hot encoded rows.  Two
\* rows with the same cells are at distance 0; two rows that differ in a
\* categorical cell are at least sqrt(2) apart, beyond eps.  The tables that
\* are clustered hold events of one instant, so rows differ in nothing else.
Near(rows, i, j) == rows[i] = rows[j]

Neighbours(rows, i) == {j \in 1..Len(rows) : Near(rows, i, j)}

\* a neighbourhood count that leaves the point itself out
IsCoreWithoutSelf(rows, i) == Cardinality(Neighbours(rows, i) \ {i}) >= MinSamples
\* a core point has min_samples points in its neighbourhood, itself included
IsCore(rows, i) == Cardinality(Neighbours(rows, i)) >= MinSamples

CoreNear(rows, i) == {j \in Neighbours(rows, i) : IsCore(rows, j)}

\* the first core point of the cluster of row i
Seed(rows, i) == CHOOSE j \in CoreNear(rows, i) : \A k \in CoreNear(rows, i) : j <= k

\* labels_: -1 for noise, clusters numbered from 0 in the order they are found
ClusterLabels(rows) ==
  [i \in 1..Len(rows) |->
     IF CoreNear(rows, i) = {} THEN 0 - 1
     ELSE Cardinality({Seed(rows, k) : k \in {k \in 1..Len(rows) :
                          /\ CoreNear(rows, k) # {}
                          /\ Seed(rows, k) < Seed(rows, i)}})]

CountOf(labels, v) == Cardinality({i \in 1..Len(labels) : labels[i] = v})

\* len(set(labels)) - (1 if -1 in labels else 0)
n_clusters(labels) ==
  Cardinality({labels[i] : i \in 1..Len(labels)})
    - (IF \E i \in 1..Len(labels) : labels[i] = 0 - 1 THEN 1 ELSE 0)

\* the share of the rows that are in a cluster
ClusteredPercentage(labels) ==
  [num |-> 100 * (Len(labels) - CountOf(labels, 0 - 1)), den |-> Len(labels)]
\* np.sum(labels == -1) / len(labels) * 100, kept as a fraction
noise_percentage(labels) ==
  [num |-> 100 * CountOf(labels, 0 - 1), den |-> Len(labels)]

train_clustering_model(w0, t, fault, time) ==
  LET op == "train_clustering_model"
      w  == Enter(w0, op)
  IN IF IsEmpty(t) THEN [w EXCEPT !.result = Failure(op, NoDataMessage)]
     ELSE LET data == preprocess_data(t)
              w1 == WithPreprocessor(Preprocessed(w, t), "clustering")
          IN IF fault # "fit" /\ ~ScalesStrings(w1) /\ LeaksNaN(data)
             THEN [w1 EXCEPT !.result = Caught(op, NaNError)]
             ELSE LET w2 == FitAndPersist(w1, op, "clustering", fault, time)
                      labels == ClusterLabels(data.rows)
                  IN IF Succeeded(w2.result)
                     THEN [w2 EXCEPT !.result =
                             @ @@ [n_clusters |-> n_clusters(labels),
                                   noise_percentage |-> noise_percentage(labels),
                                   labels |-> labels]]
                     ELSE w2

\* a string column among the features: the categorical columns, imputed or not
HasStringFeature(data) == data.cols \cap categorical_features # {}

\* IsolationForest.predict: -1 where decision_function is negative, else 1
Predictions(score) == IF score < 0 THEN 0 - 1 ELSE 1

\* the flag set on the inliers
FlagOfInlier(prediction) == IF prediction = 1 THEN 1 ELSE 0
\* np.where(predictions == -1, 1, 0)
FlagOf(prediction) == IF prediction = 0 - 1 THEN 1 ELSE 0

\* data with the columns anomaly_score and is_anomaly, a row known by its index
Scored(scores) ==
  [i \in 1..Len(scores) |->
     [index |-> i, anomaly_score |-> scores[i], is_anomaly |-> FlagOf(Predictions(scores[i]))]]

Flagged(scored) == {i \in 1..Len(scored) : scored[i].is_anomaly = 1}

Perms(S) ==
  {p \in [1..Cardinality(S) -> S] : \A a, b \in 1..Cardinality(S) : a # b => p[a] # p[b]}

\* the flagged rows in any order
AnyOrder(scores) == Perms(Flagged(Scored(scores)))
\* data[data['is_anomaly'] == 1].sort_values('anomaly_score'): the orders the
\* sort may return, ties in any order
SortValues(scores) ==
  {p \in Perms(Flagged(Scored(scores))) :
     \A k \in 1..(Len(p) - 1) : scores[p[k]] <= scores[p[k + 1]]}

train_anomaly_detection_model(w0, t, fault, time, scores, order) ==
  LET op == "train_anomaly_detection_model"
      w  == Enter(w0, op)
  IN IF IsEmpty(t) THEN [w EXCEPT !.result = Failure(op, NoDataMessage)]
     ELSE LET data == preprocess_data(t)
              w1 == WithPreprocessor(Preprocessed(w, t), "anomaly")
              \* decision_function is asked of the detector step on the
              \* unencoded columns
              step == IF fault # "fit" /\ HasStringFeature(data) THEN "score" ELSE fault
              w2 == FitAndPersist(w1, op, "anomaly", step, time)
              scored == Scored(scores)
          IN IF Succeeded(w2.result)
             THEN [w2 EXCEPT !.result =
                     @ @@ [anomaly_count |-> Cardinality(Flagged(scored)),
                           anomaly_percentage |->
                             [num |-> 100 * Cardinality(Flagged(scored)), den |-> Len(scored)],
                           data_with_scores |-> scored,
                           anomalous_data |-> [k \in 1..Len(order) |-> scored[order[k]]]]]
             ELSE w2

\* a check that lets every table through
NeverLacksTarget(w) == FALSE
\* if 'target_country' not in data.columns
LacksTarget(w) == "target_country" \notin w.features

train_target_prediction_model(w0, t, fault, time) ==
  LET op == "train_target_prediction_model"
      w  == Enter(w0, op)
  IN IF IsEmpty(t) THEN [w EXCEPT !.result = Failure(op, NoDataMessage)]
     ELSE LET w1 == Preprocessed(w, t) IN
          IF LacksTarget(w1)
          THEN [w1 EXCEPT !.result =
                  Failure(op, "Target country column is required for prediction")]
          \* train_test_split(test_size=0.2) of a single row leaves no train set
          ELSE IF Len(t.rows) < 2
          THEN [WithPreprocessor(w1, "prediction") EXCEPT !.result = Caught(op, SplitError)]
          ELSE FitAndPersist(WithPreprocessor(w1, "prediction"), op, "prediction", fault, time)

\* ------------------------------------------------------------- periodicity
\* data['timestamp'].min() + timedelta(days=14) <= data['timestamp'].max()
SpansPeriodicity(rows) ==
  MinTimestamp(rows) + PeriodicityDays * UnitsPerDay <= MaxTimestamp(rows)

\* len(daily_counts): resample('D') has one bin for each calendar day from
\* the day of the earliest event to the day of the latest
Bins(rows) ==
  MaxTimestamp(rows) \div UnitsPerDay - MinTimestamp(rows) \div UnitsPerDay + 1

\* The transform of a real series: the magnitude at index n - i is the one at
\* index i, so a spectrum is given by abs(fft_values[i]) for i in 1..n // 2,
\* in hundredths of an event.
SetMax(S) == CHOOSE m \in S : \A x \in S : x <= m

\* range(1, len(fft_freq) // 2)
Candidates(n) == 1..(n \div 2 - 1)

\* max(abs(fft_values[1:len(fft_freq)//2]))
CandidatePeak(fft, n) == SetMax({fft[i] : i \in Candidates(n)})

\* abs(fft_values[i]) > 0.1 * max(...), and period = 1 / abs(fft_freq[i]) = n / i > 1
IsDominant(fft, n, i) == 10 * fft[i] > CandidatePeak(fft, n) /\ n > i

RECURSIVE DominantFrom(_, _, _)
DominantFrom(fft, n, i) ==
  IF i \notin Candidates(n) THEN <<>>
  ELSE (IF IsDominant(fft, n, i) THEN <<[index |-> i, strength |-> fft[i]]>> ELSE <<>>)
       \o DominantFrom(fft, n, i + 1)

\* dominant_periods.sort(key=lambda x: x[1], reverse=True): stable
RECURSIVE InsertByStrength(_, _)
InsertByStrength(p, sorted) ==
  IF sorted = <<>> THEN <<p>>
  ELSE IF Head(sorted).strength >= p.strength
       THEN <<Head(sorted)>> \o InsertByStrength(p, Tail(sorted))
       ELSE <<p>> \o sorted

RECURSIVE SortByStrengthFrom(_, _)
SortByStrengthFrom(ps, acc) ==
  IF ps = <<>> THEN acc
  ELSE SortByStrengthFrom(Tail(ps), InsertByStrength(Head(ps), acc))

\* dominant_periods[:3]
TopThree(ps) == SubSeq(ps, 1, IF Len(ps) < 3 THEN Len(ps) ELSE 3)

\* round(n / i, 1), in tenths of a day: to the nearest tenth, a tie to the even one
RoundTenths(n, i) ==
  LET q == (10 * n) \div i
      r == (10 * n) % i
  IN IF 2 * r > i \/ (2 * r = i /\ q % 2 = 1) THEN q + 1 ELSE q

\* [{'period_days': round(p[0], 1), 'strength': float(p[1])} for p in top_periods]
periodic_patterns(rows, fft) ==
  IF SpansPeriodicity(rows)
  THEN LET n   == Bins(rows)
           top == TopThree(SortByStrengthFrom(DominantFrom(fft, n, 1), <<>>))
       IN [k \in 1..Len(top) |->
             [period_days |-> RoundTenths(n, top[k].index), strength |-> top[k].strength]]
  ELSE <<>>

analyze_temporal_patterns(w0, t, fft) ==
  LET op == "analyze_temporal_patterns"
      w  == Enter(w0, op)
  IN IF IsEmpty(t) THEN [w EXCEPT !.result = Failure(op, NoDataMessage)]
     ELSE LET w1 == Preprocessed(w, t) IN
          IF "timestamp" \notin w1.features
          THEN [w1 EXCEPT !.result =
                  Failure(op, "Timestamp column is required for temporal analysis")]
          ELSE [w1 EXCEPT !.result =
                  [op |-> op, raised |-> FALSE, success |-> TRUE,
                   fft_values |-> fft,
                   periodic_patterns |-> periodic_patterns(t.rows, fft)]]

GroupingCols == {"source_country", "target_country", "attack_type"}

\* the list of the call before, kept across calls
CarriedCampaigns == IF memo = None THEN <<>> ELSE memo.campaigns
\* campaigns = []
InitialCampaigns == <<>>

identify_attack_campaign(w0, t, timespan_days, min_attacks) ==
  LET op == "identify_attack_campaign"
      w  == Enter(w0, op)
  IN IF IsEmpty(t) THEN [w EXCEPT !.result = Failure(op, NoDataMessage)]
     ELSE LET w1   == Preprocessed(w, t)
              data == preprocess_data(t)
          IN IF "timestamp" \notin data.cols
             THEN [w1 EXCEPT !.result =
                     Failure(op, "Timestamp column is required for campaign identification")]
             ELSE LET found == IF GroupingCols \subseteq data.cols
                               THEN InitialCampaigns \o
                                    CollectCampaigns(data, GroupKeys(data),
                                                     timespan_days, min_attacks)
                               ELSE InitialCampaigns
                      campaigns == SortByAttackCount(found)
                  IN [w1 EXCEPT !.result =
                        [op |-> op, raised |-> FALSE, success |-> TRUE,
                         campaigns |-> campaigns,
                         campaign_count |-> Len(campaigns),
                         parameters |-> [timespan_days |-> timespan_days,
                                         min_attacks |-> min_attacks]]]

\* the one-row sample built by predict_attack_likelihood
SampleTable(source_country, attack_type, time) ==
  [cols |-> {"source_country", "attack_type", "timestamp"},
   rows |-> <<[source_country |-> IF source_country = NaN THEN Unknown ELSE source_country,
               target_country |-> NaN,
               attack_type |-> IF attack_type = NaN THEN Unknown ELSE attack_type,
               timestamp |-> time]>>]

HoldsNoModel(w) == w.prediction_model = None

SampleCols == EngineeredCols([cols |-> {"source_country", "attack_type", "timestamp"},
                              rows |-> <<>>])

\* [col for col in sample.columns if col in self.features and col != 'target_country'],
\* read after preprocess_data(sample) has set self.features
prediction_features(w) == (SampleCols \cap w.features) \ {"target_country"}

predict_attack_likelihood(w0, source_country, attack_type, time) ==
  LET op == "predict_attack_likelihood"
      w  == Enter(w0, op)
  IN IF HoldsNoModel(w) THEN [w EXCEPT !.result = Failure(op, "Prediction model not trained")]
     ELSE LET w1 == Preprocessed(w, SampleTable(source_country, attack_type, time)) IN
          \* predict_proba exists only on a pipeline that ends in a classifier
          IF w.prediction_model = None
          THEN [w1 EXCEPT !.result = Failure(op, "Prediction model not available")]
          ELSE IF w.prediction_model.kind # "prediction"
          THEN [w1 EXCEPT !.result = Caught(op, ProbaError)]
          \* the transformer of the pipeline selects the columns it was fitted on
          ELSE IF ~(w.prediction_model.columns \subseteq prediction_features(w1))
          THEN [w1 EXCEPT !.result = Caught(op, MissingColumnsError)]
          ELSE [w1 EXCEPT !.result =
                  [op |-> op, raised |-> FALSE, success |-> TRUE,
                   prediction_features |-> prediction_features(w1),
                   source_country |-> source_country, attack_type |-> attack_type]]

\* a load that never raises
LoadNeverRaises(readable) == FALSE
\* joblib.load(model_path) raises on a file it cannot read
LoadRaises(readable) == ~readable

load_model(w0, model_type, model_path, readable) ==
  LET op == "load_model"
      w  == Enter(w0, op)
      no == [op |-> op, raised |-> FALSE, value |-> FALSE]
  IN IF model_path \notin DOMAIN w.store THEN [w EXCEPT !.result = no]
     ELSE IF LoadRaises(readable) THEN [w EXCEPT !.result = no]
     ELSE IF model_type \notin ModelTypes THEN [w EXCEPT !.result = no]
     ELSE [SetSlot(w, model_type, w.store[model_path]) EXCEPT
             !.result = [op |-> op, raised |-> FALSE, value |-> TRUE]]

\* the text of a file name under MODEL_DIR, in pieces
NameText(name) == <<name.type, "_model_", ToString(name.stamp), ".joblib">>

StartsWith(text, prefix) ==
  Len(prefix) <= Len(text) /\ SubSeq(text, 1, Len(prefix)) = prefix

EndsWith(text, suffix) ==
  Len(suffix) <= Len(text) /\ SubSeq(text, Len(text) - Len(suffix) + 1, Len(text)) = suffix

\* every file under every type
ListedEverywhere(files, type) == files
\* [f for f in model_files if f.startswith('<type>_model_')]
ModelsOfType(files, type) == {f \in files : StartsWith(NameText(f), <<type, "_model_">>)}

\* os.listdir(dir): the names of the files stored under dir
listdir(s, dir) == {BaseName(f) : f \in {g \in DOMAIN s : g.dir = dir}}

\* listable: os.listdir returns; otherwise it raises and the lists are empty
get_available_models(w0, listable) ==
  LET op == "get_available_models"
      w  == Enter(w0, op)
  IN IF ~listable
     THEN [w EXCEPT !.result = [op |-> op, raised |-> FALSE, clustering |-> {},
                                anomaly |-> {}, prediction |-> {}]]
     ELSE LET model_files == {f \in listdir(w.store, MODEL_DIR) :
                                EndsWith(NameText(f), <<".joblib">>)}
          IN [w EXCEPT !.result =
                [op |-> op, raised |-> FALSE,
                 clustering |-> ModelsOfType(model_files, "clustering"),
                 anomaly |-> ModelsOfType(model_files, "anomaly"),
                 prediction |-> ModelsOfType(model_files, "prediction")]]

\* ------------------------------------------------------------- orchestrator
\* db_manager.get_attacks(time_range=None): every stored entity
get_attacks(d) == d

\* the fields of an Attack entity that attack_dict reads
ProjectedFields ==
  {"attack_type", "source_country", "target_country", "source_latitude",
   "source_longitude", "target_latitude", "target_longitude", "timestamp",
   "severity", "data_source"}

\* the key under which attack_dict puts a field: "source": attack.data_source
ColumnOf(field) == IF field = "data_source" THEN "source" ELSE field

FieldOf(col) == CHOOSE f \in ProjectedFields : ColumnOf(f) = col

\* one row per entity; pd.DataFrame([]) has no columns
attacks_to_dataframe(attacks) ==
  IF attacks = <<>> THEN [cols |-> {}, rows |-> <<>>]
  ELSE LET cols == {ColumnOf(f) : f \in ProjectedFields} IN
       [cols |-> cols,
        rows |-> [i \in 1..Len(attacks) |-> [c \in cols |-> attacks[i][FieldOf(c)]]]]

\* the run going on whatever the table holds
NoShortCircuit(t) == FALSE
\* if attack_df.empty: return the failure before any component runs
ShortCircuits(t) == IsEmpty(t)

\* an orchestrator that goes no further once a component has failed
StopsAtFailure(before, after) == IF before.result.success THEN after ELSE before
\* the five calls follow one another with no test of what the one before
\* returned
ThenRuns(before, after) == after

train_models_on_attack_data(w, d, dbfault, f1, f2, f3, fft, time) ==
  LET op == "train_models_on_attack_data" IN
  IF dbfault THEN [w EXCEPT !.result = Caught(op, DbError)]
  ELSE LET attack_df == attacks_to_dataframe(get_attacks(d)) IN
       IF ShortCircuits(attack_df)
       THEN [w EXCEPT !.result = Failure(op, "No attack data available")]
       ELSE LET a0 == NewAnalyzer(w)
                a1 == train_clustering_model(a0, attack_df, f1, time)
                a2 == ThenRuns(a1, train_anomaly_detection_model(a1, attack_df, f2, time,
                                                                 <<>>, <<>>))
                a3 == ThenRuns(a2, train_target_prediction_model(a2, attack_df, f3, time))
                a4 == ThenRuns(a3, analyze_temporal_patterns(a3, attack_df, fft))
                a5 == ThenRuns(a4, identify_attack_campaign(a4, attack_df,
                                                            DefaultTimespanDays,
                                                            DefaultMinAttacks))
            IN [w EXCEPT !.store = a5.store, !.fits = a5.fits, !.calls = a5.calls,
                         !.inputs = a5.inputs, !.preprocessor = a5.preprocessor,
                         !.result = [op |-> op, raised |-> FALSE, success |-> TRUE,
                                     data_size |-> Len(attack_df.rows),
                                     clustering |-> a1.result,
                                     anomaly |-> a2.result,
                                     prediction |-> a3.result,
                                     temporal |-> a4.result,
                                     campaigns |-> a5.result,
                                     timestamp |-> time]]

\* ------------------------------------------------------------------ actions
\* the caller's table and the engineered one being the same object
SharedTable(t, data) == IF IsEmpty(t) THEN t ELSE data
\* data = df.copy(): what the operation assigns goes to the copy, and the
\* caller's table is after the call what it was before
CallerTable(t, data) == t

Apply(w) ==
  /\ clustering_model' = w.clustering_model
  /\ anomaly_model' = w.anomaly_model
  /\ prediction_model' = w.prediction_model
  /\ features' = w.features
  /\ store' = w.store
  /\ fits' = w.fits
  /\ calls' = w.calls
  /\ inputs' = w.inputs
  /\ preprocessor' = w.preprocessor
  /\ result' = w.result

TrainClustering ==
  /\ Len(fits) < MaxFits
  /\ \E fault \in Faults : Apply(train_clustering_model(World, df, fault, now))
  /\ df' = CallerTable(df, preprocess_data(df))
  /\ UNCHANGED <<db, now, memo>>

\* the scores the fitted detector may give the rows of t: negative ones of
\* several sizes, zero and a positive one; none is asked for when the call
\* ends before
ScoreSet == (0 - MaxScore)..1
ScoreChoices(t, fault) ==
  IF IsEmpty(t) \/ HasStringFeature(t) \/ fault = "fit" THEN {<<>>}
  ELSE [1..Len(t.rows) -> ScoreSet]

TrainAnomaly ==
  /\ Len(fits) < MaxFits
  /\ \E fault \in Faults : \E scores \in ScoreChoices(df, fault) :
       \E order \in SortValues(scores) :
         Apply(train_anomaly_detection_model(World, df, fault, now, scores, order))
  /\ df' = CallerTable(df, preprocess_data(df))
  /\ UNCHANGED <<db, now, memo>>

TrainPrediction ==
  /\ Len(fits) < MaxFits
  /\ \E fault \in Faults : Apply(train_target_prediction_model(World, df, fault, now))
  /\ df' = CallerTable(df, preprocess_data(df))
  /\ UNCHANGED <<db, now, memo>>

\* the magnitudes the transform may give the daily counts of t: none, a weak
\* one or a strong one at the three lowest frequencies and the two highest,
\* and none elsewhere; no spectrum is asked for when the span is too short
MagnitudeSet == {0, 1, MaxMagnitude}
ProbedBins(n) == {1, 2, 3, n \div 2 - 1, n \div 2}
SpectrumChoices(t) ==
  IF IsEmpty(t) \/ "timestamp" \notin t.cols THEN {<<>>}
  ELSE IF ~SpansPeriodicity(t.rows) THEN {<<>>}
  ELSE LET n == Bins(t.rows) IN
       {[i \in 1..(n \div 2) |-> IF i \in ProbedBins(n) THEN g[i] ELSE 0] :
          g \in [ProbedBins(n) -> MagnitudeSet]}

AnalyzeTemporal ==
  /\ \E fft \in SpectrumChoices(df) : Apply(analyze_temporal_patterns(World, df, fft))
  /\ df' = CallerTable(df, preprocess_data(df))
  /\ UNCHANGED <<db, now, memo>>

\* the call with its default parameters
IdentifyCampaignDefault ==
  /\ Apply(identify_attack_campaign(World, df, DefaultTimespanDays, DefaultMinAttacks))
  /\ df' = CallerTable(df, preprocess_data(df))
  /\ UNCHANGED <<db, now, memo>>

\* the call with parameters of the caller's choice; memo keeps what it returned
IdentifyCampaignWith ==
  /\ \E timespan_days \in TimespanDaysSet, min_attacks \in MinAttacksSet :
       LET w == identify_attack_campaign(World, df, timespan_days, min_attacks) IN
       /\ Apply(w)
       /\ memo' = IF w.result.success
                  THEN [timespan_days |-> timespan_days, min_attacks |-> min_attacks,
                        campaigns |-> w.result.campaigns,
                        \* a call with these parameters was made before, and
                        \* another operation ran since
                        repeated |-> /\ memo # None
                                     /\ memo.timespan_days = timespan_days
                                     /\ memo.min_attacks = min_attacks,
                        interleaved |-> result.op # "identify_attack_campaign"]
                  ELSE memo
  /\ df' = CallerTable(df, preprocess_data(df))
  /\ UNCHANGED <<db, now>>

Predict ==
  /\ \E source_country \in {NaN, "CN"}, attack_type \in {NaN} :
       Apply(predict_attack_likelihood(World, source_country, attack_type, now))
  /\ UNCHANGED <<df, db, now, memo>>

\* a path under which nothing is stored
NoSuchFile == [dir |-> MODEL_DIR, type |-> "none", stamp |-> 0]

LoadModelWith(model_type, model_path, readable) ==
  /\ Apply(load_model(World, model_type, model_path, readable))
  /\ UNCHANGED <<df, db, now, memo>>

\* the types and paths a caller passes: the path a fit returned, or a path
\* under which nothing is stored
LoadTypes == ModelTypes \cup {"other"}
LoadPaths == DOMAIN store \cup {NoSuchFile}

LoadModel ==
  \E model_type \in LoadTypes, model_path \in LoadPaths, readable \in BOOLEAN :
    LoadModelWith(model_type, model_path, readable)

\* the caller passes a name as os.listdir gives it
ListedNames == {BaseName(f) : f \in DOMAIN store}

LoadByName ==
  \E model_type \in ModelTypes, model_path \in ListedNames :
    LoadModelWith(model_type, model_path, TRUE)

TrainModelsOnAttackData ==
  /\ Len(fits) < MaxFits
  /\ \E dbfault \in BOOLEAN, f1 \in Faults, f2 \in Faults, f3 \in Faults :
       \E fft \in SpectrumChoices(attacks_to_dataframe(get_attacks(db))) :
         Apply(train_models_on_attack_data(World, db, dbfault, f1, f2, f3, fft, now))
  /\ UNCHANGED <<df, db, now, memo>>

\* a second of wall-clock time passes
Tick ==
  /\ now < MaxNow
  /\ now' = now + 1
  /\ UNCHANGED <<df, db, clustering_model, anomaly_model, prediction_model,
                 features, store, fits, calls, inputs, preprocessor, memo, result>>

ListModels(listable) ==
  /\ Apply(get_available_models(World, listable))
  /\ UNCHANGED <<df, db, now, memo>>

GetAvailableModels == \E listable \in BOOLEAN : ListModels(listable)

\* preprocess_data called on its own; memo keeps what the call before returned
PreprocessTable(t) ==
  /\ Apply([Preprocessed(World, t) EXCEPT
             !.result = [op |-> "preprocess_data", raised |-> FALSE,
                         input |-> t, data |-> preprocess_data(t)]])
  /\ memo' = result
  /\ UNCHANGED <<db, now>>

PreprocessData ==
  /\ PreprocessTable(df)
  /\ df' = CallerTable(df, preprocess_data(df))

\* the same analyzer preprocesses the table of the stored events
PreprocessStored ==
  /\ PreprocessTable(attacks_to_dataframe(get_attacks(db)))
  /\ UNCHANGED df

\* ----------------------------------------------------------- specifications
NoResult == [op |-> "none", raised |-> FALSE]
EmptyStore == [n \in {} |-> None]

FreshAnalyzer ==
  /\ clustering_model = None
  /\ anomaly_model = None
  /\ prediction_model = None
  /\ features = {}

Fresh ==
  /\ FreshAnalyzer
  /\ store = EmptyStore
  /\ now = 0
  /\ fits = <<>>
  /\ calls = <<>>
  /\ inputs = <<>>
  /\ preprocessor = None
  /\ memo = None
  /\ result = NoResult

\* the tables of the life-cycle specification: copies of one event
SmallTables ==
  {t \in Tables : /\ Len(t.rows) <= 2
                  /\ \/ t.cols = StructuralCols
                     \/ Len(t.rows) = 2 /\ {"source_country", "attack_type"} \subseteq t.cols
                  /\ \A i \in 1..Len(t.rows) :
                       /\ t.rows[i].timestamp <= 0
                       /\ t.rows[i].attack_type # "Phishing"}

Init ==
  /\ df \in SmallTables
  /\ db = Entities(df.rows)
  /\ Fresh

Next ==
  \/ TrainClustering
  \/ TrainAnomaly
  \/ TrainPrediction
  \/ AnalyzeTemporal
  \/ IdentifyCampaignDefault
  \/ Predict
  \/ LoadModel
  \/ Tick

Spec == Init /\ [][Next]_vars

\* the orchestrator beside direct calls on the caller's analyzer
NextRun ==
  \/ TrainModelsOnAttackData
  \/ TrainClustering
  \/ TrainAnomaly
  \/ TrainPrediction
  \/ AnalyzeTemporal
  \/ IdentifyCampaignDefault
  \/ Predict
  \/ Tick

SpecRun == Init /\ [][NextRun]_vars

\* the campaign correlator over every table of the bounds
InitCampaign ==
  /\ df \in Tables
  /\ db = Entities(df.rows)
  /\ Fresh

NextCampaign ==
  \/ IdentifyCampaignWith
  \/ AnalyzeTemporal

SpecCampaign == InitCampaign /\ [][NextCampaign]_vars

\* the feature engineer over every table of the bounds, beside one stored event
StoredEvent ==
  [source_country |-> NaN, target_country |-> "US", attack_type |-> "DDoS", timestamp |-> 0]

InitPreprocess ==
  /\ df \in PreTables
  /\ db = Entities(<<StoredEvent>>)
  /\ Fresh

NextPreprocess ==
  \/ PreprocessData
  \/ PreprocessStored

SpecPreprocess == InitPreprocess /\ [][NextPreprocess]_vars

\* clustering over tables of copies of two events of one instant
Copies(row, n) == [i \in 1..n |-> row]

OtherEvent ==
  [source_country |-> "CN", target_country |-> "US", attack_type |-> "Phishing", timestamp |-> 0]

ClusterTables ==
  {[cols |-> StructuralCols, rows |-> Copies(OtherEvent, a) \o Copies(StoredEvent, b)] :
     a \in 1..MaxCopies, b \in 0..MaxCopies}

InitCluster ==
  /\ df \in ClusterTables
  /\ db = Entities(df.rows)
  /\ Fresh

NextCluster ==
  \/ TrainClustering
  \/ Tick

SpecCluster == InitCluster /\ [][NextCluster]_vars

\* anomaly detection over tables without a string column
ScoreCols == {"source_latitude", "timestamp"}

ScoreRowSet ==
  {[source_latitude |-> l, timestamp |-> 0] : l \in {Missing, Number(0, 1)}}

ScoreTables == {[cols |-> ScoreCols, rows |-> r] : r \in SeqsUpTo(ScoreRowSet, MaxScored)}

InitAnomaly ==
  /\ df \in ScoreTables
  /\ db = <<>>
  /\ Fresh

NextAnomaly ==
  \/ TrainAnomaly
  \/ AnalyzeTemporal

SpecAnomaly == InitAnomaly /\ [][NextAnomaly]_vars

\* the orchestrator and direct calls over the table of the stored entities:
\* copies of one event, each reported by one of two data sources
DataSources == {"Kaspersky", "Radware"}

StoredDbs ==
  {[i \in 1..n |-> EntityFrom(StoredEvent, i, src[i])] :
     n \in 1..MaxCopies, src \in [1..MaxCopies -> DataSources]}

InitStored ==
  /\ db \in StoredDbs
  /\ df = attacks_to_dataframe(get_attacks(db))
  /\ Fresh

NextStored ==
  \/ TrainModelsOnAttackData
  \/ TrainClustering
  \/ TrainAnomaly
  \/ TrainPrediction
  \/ IdentifyCampaignDefault
  \/ Tick

SpecStored == InitStored /\ [][NextStored]_vars

\* the six operations that take the caller's table, in any order
NextCaller ==
  \/ PreprocessData
  \/ TrainClustering
  \/ TrainAnomaly
  \/ TrainPrediction
  \/ AnalyzeTemporal
  \/ IdentifyCampaignDefault
  \/ Tick

SpecCaller == Init /\ [][NextCaller]_vars

\* fitting, listing and loading on one table
InitLoad ==
  /\ df = [cols |-> StructuralCols, rows |-> Copies(StoredEvent, 2)]
  /\ db = <<>>
  /\ Fresh

NextLoad ==
  \/ TrainClustering
  \/ TrainPrediction
  \/ GetAvailableModels
  \/ LoadModel
  \/ LoadByName
  \/ Tick

SpecLoad == InitLoad /\ [][NextLoad]_vars

\* training and prediction over tables of two events, with and without a
\* located source
LocatedCols == StructuralCols \cup {"source_latitude"}

PredictTables ==
  {[cols |-> cols,
    rows |-> Copies([c \in cols |-> IF c = "source_latitude" THEN Number(0, 1)
                                     ELSE StoredEvent[c]], n)] :
     cols \in {StructuralCols, LocatedCols}, n \in 1..MaxScored}

InitPredict ==
  /\ df \in PredictTables
  /\ db = <<>>
  /\ Fresh

NextPredict ==
  \/ TrainPrediction
  \/ Predict
  \/ AnalyzeTemporal
  \/ Tick

SpecPredict == InitPredict /\ [][NextPredict]_vars

\* the temporal analyzer over tables of a first and a last event, up to
\* MaxSpanDays apart, one of them a fraction of a day short of 14 days
TemporalTimes ==
  {0, PeriodicityDays * UnitsPerDay - 1}
    \cup {d * UnitsPerDay : d \in PeriodicityDays..MaxSpanDays}

TemporalTables ==
  {[cols |-> {"timestamp"}, rows |-> <<[timestamp |-> a], [timestamp |-> b]>>] :
     a \in TemporalTimes, b \in TemporalTimes}

InitTemporal ==
  /\ df \in TemporalTables
  /\ db = <<>>
  /\ Fresh

NextTemporal ==
  \/ AnalyzeTemporal
  \/ IdentifyCampaignDefault

SpecTemporal == InitTemporal /\ [][NextTemporal]_vars

\* the model store: fits of the three types and the listing, beside a file
\* that no fit wrote
ForeignFile == [dir |-> MODEL_DIR, type |-> "scaler", stamp |-> 0]
ForeignStore == [n \in {ForeignFile} |-> [kind |-> "other", fit |-> 0, columns |-> {}]]

StoreTables ==
  {[cols |-> StructuralCols, rows |-> Copies(StoredEvent, 2)],
   [cols |-> ScoreCols, rows |-> <<[source_latitude |-> Number(0, 1), timestamp |-> 0]>>]}

InitStore ==
  /\ df \in StoreTables
  /\ db = <<>>
  /\ FreshAnalyzer
  /\ store \in {EmptyStore, ForeignStore}
  /\ now = 0
  /\ fits = <<>>
  /\ calls = <<>>
  /\ inputs = <<>>
  /\ preprocessor = None
  /\ memo = None
  /\ result = NoResult

NextStore ==
  \/ TrainClustering
  \/ TrainAnomaly
  \/ TrainPrediction
  \/ GetAvailableModels
  \/ Tick

SpecStore == InitStore /\ [][NextStore]_vars

\* =================================================================== claims
CampaignOp == "identify_attack_campaign"
RunOp == "train_models_on_attack_data"

Filled(v) == IF v = NaN THEN Unknown ELSE v

\* the events of df that carry the (imputed) key of campaign c
EventsOf(c) ==
  SelectSeq(df.rows, LAMBDA r : /\ Filled(r.source_country) = c.source_country
                                /\ Filled(r.target_country) = c.target_country
                                /\ Filled(r.attack_type) = c.attack_type)

Earliest(rows) ==
  CHOOSE m \in {rows[i].timestamp : i \in 1..Len(rows)} :
    \A i \in 1..Len(rows) : m <= rows[i].timestamp

Latest(rows) ==
  CHOOSE m \in {rows[i].timestamp : i \in 1..Len(rows)} :
    \A i \in 1..Len(rows) : m >= rows[i].timestamp

HasAllStructural == StructuralCols \subseteq df.cols

\* C1: every campaign of a successful identify_attack_campaign result is a
\* (source_country, target_country, attack_type) group of the table with at
\* least min_attacks events whose latest event is no more than timespan_days
\* days after its earliest.
C1_CampaignWithinBounds ==
  (result.op = CampaignOp /\ result.success) =>
    \A i \in 1..Len(result.campaigns) :
      LET ev == EventsOf(result.campaigns[i]) IN
      /\ Len(ev) >= 1
      /\ Len(ev) >= result.parameters.min_attacks
      /\ Latest(ev) - Earliest(ev) <= result.parameters.timespan_days * UnitsPerDay

\* C1 (amended): every campaign of a successful result is a group of the
\* table with at least min_attacks events whose span, truncated to whole
\* days, is at most timespan_days.
C1_CampaignWithinWholeDays ==
  (result.op = CampaignOp /\ result.success) =>
    \A i \in 1..Len(result.campaigns) :
      LET ev == EventsOf(result.campaigns[i]) IN
      /\ Len(ev) >= 1
      /\ Len(ev) >= result.parameters.min_attacks
      /\ (Latest(ev) - Earliest(ev)) \div UnitsPerDay <= result.parameters.timespan_days

\* one group was kept, its events apart by less than a whole day more than
\* the bound, and the other group of the table was discarded
C1_Witness ==
  /\ result.op = CampaignOp
  /\ result.success
  /\ Len(result.campaigns) = 1
  /\ \E i, j \in 1..Len(df.rows) :
       Filled(df.rows[i].source_country) # Filled(df.rows[j].source_country)
  /\ LET ev == EventsOf(result.campaigns[1]) IN
       Latest(ev) - Earliest(ev) > result.parameters.timespan_days * UnitsPerDay

\* C2: when the n events of the table share one key, n >= min_attacks and
\* they span s whole days with s <= timespan_days, the result holds exactly
\* one campaign, with attack_count n, timespan_days s and attack_frequency
\* n / max(s, 1).
SharesOneKey ==
  \A i, j \in 1..Len(df.rows) :
    /\ Filled(df.rows[i].source_country) = Filled(df.rows[j].source_country)
    /\ Filled(df.rows[i].target_country) = Filled(df.rows[j].target_country)
    /\ Filled(df.rows[i].attack_type) = Filled(df.rows[j].attack_type)

SpanDays == (Latest(df.rows) - Earliest(df.rows)) \div UnitsPerDay

C3_MissingColumnFails ==
  (result.op = CampaignOp /\ Len(df.rows) >= 1 /\ ~HasAllStructural) =>
    /\ result.raised = FALSE
    /\ result.success = FALSE
    /\ result.message # ""

\* C4: the campaigns of a result are in non-increasing order of attack_count,
\* and campaign_count is the length of the list.
C4_SortedByCount ==
  (result.op = CampaignOp /\ result.success) =>
    /\ \A i \in 1..(Len(result.campaigns) - 1) :
         result.campaigns[i].attack_count >= result.campaigns[i + 1].attack_count
    /\ result.campaign_count = Len(result.campaigns)

\* the sort moved a larger group in front of one whose key sorts first
C4_Witness ==
  /\ result.op = CampaignOp
  /\ result.success
  /\ Len(result.campaigns) = 2
  /\ result.campaigns[1].attack_count > result.campaigns[2].attack_count
  /\ Rank(result.campaigns[2].source_country) < Rank(result.campaigns[1].source_country)

C6_EmptyInput ==
  [][(/\ Len(df.rows) = 0
      /\ \/ TrainClustering
         \/ TrainAnomaly
         \/ TrainPrediction
         \/ AnalyzeTemporal
         \/ IdentifyCampaignDefault)
     => /\ result'.raised = FALSE
        /\ result'.success = FALSE
        /\ result'.message # ""
        /\ clustering_model' = clustering_model
        /\ anomaly_model' = anomaly_model
        /\ prediction_model' = prediction_model
        /\ store' = store]_vars

\* the prediction fit was entered on an empty table and refused it
C6_Witness ==
  /\ Len(df.rows) = 0
  /\ result.op = "train_target_prediction_model"
  /\ result.success = FALSE
  /\ calls = <<"train_target_prediction_model">>

\* C7: a run of train_models_on_attack_data over an empty dataset returns one
\* failure result with a message, enters none of the five component
\* operations and persists nothing.
C7_ShortCircuit ==
  [][(db = <<>> /\ TrainModelsOnAttackData)
     => /\ result'.raised = FALSE
        /\ result'.success = FALSE
        /\ result'.message # ""
        /\ DOMAIN result' = {"op", "raised", "success", "message"}
        /\ calls' = <<>>
        /\ store' = store
        /\ fits' = fits]_vars

C7_Witness ==
  /\ db = <<>>
  /\ result.op = RunOp
  /\ result.message = "No attack data available"

\* C8: whatever step fails inside, each of the seven operations returns a
\* result with a success flag, a failed one with a non-empty message, and no
\* exception leaves the call.
WellFormed(r) ==
  /\ r.raised = FALSE
  /\ "success" \in DOMAIN r
  /\ r.success \in BOOLEAN
  /\ ~r.success => ("message" \in DOMAIN r /\ r.message # "")

SevenOps ==
  {"train_clustering_model", "train_anomaly_detection_model",
   "train_target_prediction_model", "analyze_temporal_patterns",
   CampaignOp, "predict_attack_likelihood", RunOp}

LoadPrediction ==
  \E model_path \in DOMAIN store : Apply(load_model(World, "prediction", model_path, TRUE))

C9_UntrainedPrediction ==
  [][/\ (prediction_model = None /\ Predict)
        => result' = Failure("predict_attack_likelihood", "Prediction model not trained")
     /\ (prediction_model = None /\ prediction_model' # None)
        => (TrainPrediction \/ LoadPrediction)]_vars

\* prediction was asked of an analyzer holding the two other models
C9_Witness ==
  /\ result.op = "predict_attack_likelihood"
  /\ result.success = FALSE
  /\ result.message = "Prediction model not trained"
  /\ clustering_model # None
  /\ anomaly_model # None
  /\ prediction_model = None

\* C10: no two successful fits return the same model_filename, and the store
\* holds as many artifacts as there were successful fits.
SavedFits == SelectSeq(fits, LAMBDA f : f.saved)

C10_UniqueArtifactNames ==
  /\ \A i, j \in 1..Len(SavedFits) :
       i # j => SavedFits[i].model_filename # SavedFits[j].model_filename
  /\ Cardinality(DOMAIN store) = Len(SavedFits)

\* -------------------------------------------------------------- model store
ListOp == "get_available_models"

\* the stored files whose name starts with the type
StoredOfType(s, type) == {BaseName(f) : f \in {g \in DOMAIN s : g.type = type}}

NothingElseChanges ==
  /\ store' = store
  /\ fits' = fits
  /\ clustering_model' = clustering_model
  /\ anomaly_model' = anomaly_model
  /\ prediction_model' = prediction_model
  /\ features' = features

ListsExactly ==
  /\ \A type \in ModelTypes : result'[type] = StoredOfType(store, type)
  /\ \A k \in 1..Len(fits) :
       fits[k].saved =>
         \A type \in ModelTypes :
           (BaseName(fits[k].model_filename) \in result'[type]) <=> (type = fits[k].type)

\* C11: get_available_models returns for each type exactly the stored
\* artifacts named '<type>_model_...'; an artifact persisted by a successful
\* fit of type t is listed under t and under no other type; the listing
\* changes neither the store nor the analyzer.
C11_ListsStoredArtifacts ==
  [][GetAvailableModels =>
       /\ result'.raised = FALSE
       /\ ListsExactly
       /\ NothingElseChanges]_vars

\* C11 (amended): the same when the directory can be listed; when listing
\* it raises, the three lists are empty, nothing is raised and nothing
\* changes.
C11_ListsWhenListable ==
  [][\A listable \in BOOLEAN :
       ListModels(listable) =>
         /\ result'.raised = FALSE
         /\ NothingElseChanges
         /\ listable => ListsExactly
         /\ ~listable => \A type \in ModelTypes : result'[type] = {}]_vars

\* a listing of a store that holds fits of two types and a file no fit wrote
C11_Witness ==
  /\ result.op = ListOp
  /\ ForeignFile \in DOMAIN store
  /\ result.clustering # {}
  /\ result.anomaly # {}
  /\ result.clustering \cap result.anomaly = {}
  /\ BaseName(ForeignFile) \notin result.clustering \cup result.anomaly \cup result.prediction

\* ------------------------------------------------------------ preprocessing
PreprocessOp == "preprocess_data"

NumericIn(t) == t.cols \cap numerical_features
CategoricalIn(t) == t.cols \cap categorical_features

AllMissing(t, c) == \A i \in 1..Len(t.rows) : t.rows[i][c].nan

\* C12: when every value of a numeric column of a non-empty table is
\* missing, preprocess_data outputs that column as all zeros.
C12_AllMissingBecomesZero ==
  (result.op = PreprocessOp /\ Len(result.input.rows) >= 1) =>
    \A c \in NumericIn(result.input) :
      AllMissing(result.input, c) =>
        /\ Len(result.data.rows) = Len(result.input.rows)
        /\ \A i \in 1..Len(result.data.rows) : result.data.rows[i][c] = Number(0, 1)

\* C13: in the output of preprocess_data on a non-empty table every numeric
\* cell holds a value (a present one unchanged, a missing one the median of
\* the present ones) and every categorical cell holds its original value or
\* 'unknown'; no missing value remains.
C13_NoMissingAfterImputation ==
  (result.op = PreprocessOp /\ Len(result.input.rows) >= 1) =>
    /\ Len(result.data.rows) = Len(result.input.rows)
    /\ \A i \in 1..Len(result.data.rows) :
         LET in == result.input.rows[i]
             out == result.data.rows[i]
         IN /\ \A c \in NumericIn(result.input) :
                 /\ ~out[c].nan
                 /\ ~in[c].nan => out[c] = in[c]
            /\ \A c \in CategoricalIn(result.input) :
                 /\ out[c] # NaN
                 /\ out[c] = (IF in[c] = NaN THEN Unknown ELSE in[c])

\* C14: the output of preprocess_data has the rows of a non-empty input, one
\* for one and in the same order; for an empty input it is an empty table
\* and no error.
C14_RowsPreserved ==
  result.op = PreprocessOp =>
    /\ result.raised = FALSE
    /\ Len(result.data.rows) = Len(result.input.rows)
    /\ Len(result.input.rows) = 0 => result.data = EmptyTable
    /\ \A i \in 1..Len(result.input.rows) :
         /\ i <= Len(result.data.rows)
         /\ \A c \in result.input.cols :
              LET in == result.input.rows[i][c]
                  out == result.data.rows[i][c]
              IN IF c \in numerical_features THEN (~in.nan => out = in)
                 ELSE IF c \in categorical_features THEN (in # NaN => out = in)
                 ELSE out = in

\* three rows that differ came out in the order they went in, one of them
\* with a missing category
C14_Witness ==
  /\ result.op = PreprocessOp
  /\ Len(result.input.rows) = 3
  /\ Len(result.data.rows) = 3
  /\ result.input.rows[1].source_country = NaN
  /\ result.input.rows[2].source_country = "CN"
  /\ result.input.rows[1].source_latitude # result.input.rows[3].source_latitude
  /\ ~result.input.rows[1].source_latitude.nan
  /\ ~result.input.rows[3].source_latitude.nan

\* C15: in every output row source_country_frequency is the number of rows
\* of the same table with that row's imputed source_country, and
\* attack_type_frequency likewise; rows with a missing value are counted
\* together under 'unknown', every frequency is at least 1, and an earlier
\* invocation has no part in it.
C15_FrequencyCounts ==
  (result.op = PreprocessOp /\ Len(result.input.rows) >= 1) =>
    \A i \in 1..Len(result.data.rows) :
      \A c \in FrequencyCols \cap result.input.cols :
        LET rows == result.data.rows
            imputed(j) == IF result.input.rows[j][c] = NaN THEN Unknown
                          ELSE result.input.rows[j][c]
        IN /\ rows[i][FrequencyName[c]] >= 1
           /\ rows[i][FrequencyName[c]] =
                Cardinality({j \in 1..Len(rows) : rows[j][c] = rows[i][c]})
           /\ rows[i][FrequencyName[c]] =
                Cardinality({j \in 1..Len(result.input.rows) : imputed(j) = imputed(i)})

\* two rows with a missing source were counted together, after the analyzer
\* had preprocessed another table
C15_Witness ==
  /\ result.op = PreprocessOp
  /\ memo # None
  /\ memo.op = PreprocessOp
  /\ memo.input # result.input
  /\ Len(result.input.rows) = 3
  /\ result.input.rows[1].source_country = NaN
  /\ result.input.rows[2].source_country = "CN"
  /\ result.input.rows[3].source_country = NaN
  /\ result.data.rows[1].source_country_frequency = 2
  /\ result.data.rows[2].source_country_frequency = 1

\* ---------------------------------------------------------------- clustering
ClusteringOp == "train_clustering_model"

NoiseRows(r) == Cardinality({i \in 1..Len(r.labels) : r.labels[i] = 0 - 1})

\* C16: the noise measure of a successful train_clustering_model result is
\* (rows labelled -1) / (rows) and lies in [0, 1].
C16_NoiseRatio ==
  (result.op = ClusteringOp /\ result.success) =>
    /\ result.noise_percentage.num * Len(result.labels)
         = NoiseRows(result) * result.noise_percentage.den
    /\ 0 <= result.noise_percentage.num
    /\ result.noise_percentage.num <= result.noise_percentage.den

\* C16 (amended): the noise measure is 100 * (rows labelled -1) / (rows), a
\* percentage in [0, 100].
C16_NoisePercentage ==
  (result.op = ClusteringOp /\ result.success) =>
    /\ Len(result.labels) = Len(df.rows)
    /\ result.noise_percentage.num * Len(result.labels)
         = 100 * NoiseRows(result) * result.noise_percentage.den
    /\ 0 <= result.noise_percentage.num
    /\ result.noise_percentage.num <= 100 * result.noise_percentage.den

\* one cluster and one noise row beside it
C16_Witness ==
  /\ result.op = ClusteringOp
  /\ result.success
  /\ NoiseRows(result) = 1
  /\ Len(result.labels) > MinSamples
  /\ result.n_clusters = 1

AllRowsIdentical == \A i, j \in 1..Len(df.rows) : df.rows[i] = df.rows[j]

\* C17: on a table of identical rows train_clustering_model labels most or
\* all rows noise and reports 0 clusters, whatever the number of rows.
C17_IdenticalRowsAreNoise ==
  (result.op = ClusteringOp /\ result.success /\ AllRowsIdentical) =>
    /\ result.n_clusters = 0
    /\ 2 * NoiseRows(result) > Len(result.labels)

\* C17 (amended): on a table of identical rows, fewer than 5 rows are all
\* noise with 0 clusters; 5 rows or more form one cluster with no noise.
C17_IdenticalRowsBySize ==
  (result.op = ClusteringOp /\ result.success /\ AllRowsIdentical) =>
    IF Len(df.rows) < 5
    THEN /\ result.n_clusters = 0
         /\ NoiseRows(result) = Len(df.rows)
    ELSE /\ result.n_clusters = 1
         /\ NoiseRows(result) = 0
         /\ \A i \in 1..Len(result.labels) : result.labels[i] = 0

\* five identical rows, one cluster
C17_Witness ==
  /\ result.op = ClusteringOp
  /\ result.success
  /\ AllRowsIdentical
  /\ Len(df.rows) = 5
  /\ result.n_clusters = 1

\* --------------------------------------------------------- anomaly detection
AnomalyOp == "train_anomaly_detection_model"

FlaggedRows(r) == {i \in 1..Len(r.data_with_scores) : r.data_with_scores[i].is_anomaly = 1}

\* C18: in the scored table of a successful train_anomaly_detection_model
\* result every flagged row has a score strictly below every unflagged
\* row's, and anomaly_count is the number of flagged rows.
C18_FlaggedAreLowest ==
  (result.op = AnomalyOp /\ result.success) =>
    /\ Len(result.data_with_scores) = Len(df.rows)
    /\ \A i \in 1..Len(result.data_with_scores) :
         result.data_with_scores[i].is_anomaly \in {0, 1}
    /\ \A i \in FlaggedRows(result) :
         \A j \in (1..Len(result.data_with_scores)) \ FlaggedRows(result) :
           result.data_with_scores[i].anomaly_score < result.data_with_scores[j].anomaly_score
    /\ result.anomaly_count = Cardinality(FlaggedRows(result))

\* a flagged row after an unflagged one
C18_Witness ==
  /\ result.op = AnomalyOp
  /\ result.success
  /\ Len(result.data_with_scores) = 2
  /\ result.data_with_scores[1].is_anomaly = 0
  /\ result.data_with_scores[2].is_anomaly = 1

\* C19: anomalous_data holds exactly the flagged rows, each once, in
\* non-decreasing order of anomaly_score.
C19_AnomalousSorted ==
  (result.op = AnomalyOp /\ result.success) =>
    /\ {result.anomalous_data[k] : k \in 1..Len(result.anomalous_data)}
         = {result.data_with_scores[i] : i \in FlaggedRows(result)}
    /\ Len(result.anomalous_data) = Cardinality(FlaggedRows(result))
    /\ \A k \in 1..(Len(result.anomalous_data) - 1) :
         result.anomalous_data[k].anomaly_score <= result.anomalous_data[k + 1].anomaly_score

\* two flagged rows came out in the reverse of their order in the table
C19_Witness ==
  /\ result.op = AnomalyOp
  /\ result.success
  /\ Len(result.anomalous_data) = 2
  /\ result.anomalous_data[1].index = 2
  /\ result.anomalous_data[2].index = 1
  /\ result.anomalous_data[1].anomaly_score < result.anomalous_data[2].anomaly_score

\* ---------------------------------------------------------------- prediction
PredictionOp == "train_target_prediction_model"

\* C20: train_target_prediction_model on a non-empty table without a
\* target_country column returns success=False with a message, raises
\* nothing, leaves the prediction slot as it was and persists nothing.
C20_NoTargetColumn ==
  [][(/\ Len(df.rows) >= 1
      /\ df.cols # {}
      /\ "target_country" \notin df.cols
      /\ TrainPrediction)
     => /\ result'.raised = FALSE
        /\ result'.success = FALSE
        /\ result'.message = "Target country column is required for prediction"
        /\ prediction_model' = prediction_model
        /\ store' = store]_vars

\* the call was refused while the store held an artifact of another fit
C20_Witness ==
  /\ result.op = PredictionOp
  /\ result.success = FALSE
  /\ result.message = "Target country column is required for prediction"
  /\ "target_country" \notin df.cols
  /\ DOMAIN store # {}

\* ------------------------------------------------------------- periodicity
TemporalOp == "analyze_temporal_patterns"

\* the largest magnitude of the spectrum away from the zero frequency
LargestNonDC(fft) == SetMax({fft[i] : i \in DOMAIN fft})

\* C21: periodic_patterns is empty whenever the latest timestamp is less than
\* 14 days after the earliest; otherwise it holds at most 3 patterns in
\* non-increasing order of strength, each with period_days > 1 and a
\* magnitude above 10% of the largest non-DC magnitude.
C21_PeriodicPatterns ==
  (result.op = TemporalOp /\ result.success) =>
    LET ps == result.periodic_patterns IN
    IF Latest(df.rows) - Earliest(df.rows) < PeriodicityDays * UnitsPerDay
    THEN ps = <<>>
    ELSE /\ Len(ps) <= 3
         /\ \A k \in 1..(Len(ps) - 1) : ps[k].strength >= ps[k + 1].strength
         /\ \A k \in 1..Len(ps) :
              /\ ps[k].period_days > 10
              /\ 10 * ps[k].strength > LargestNonDC(result.fft_values)

\* ------------------------------------------------------------- orchestrator
\* the stored entities that carry the key of campaign c
EntitiesOf(c) ==
  {i \in 1..Len(db) : /\ Filled(db[i].source_country) = c.source_country
                       /\ Filled(db[i].target_country) = c.target_country
                       /\ Filled(db[i].attack_type) = c.attack_type}

\* C22: the table built from the stored entities has every projected field
\* of an entity, data_source included, under the column name of that field,
\* and the campaigns of a run report the distinct data sources of their
\* events.
C22_ProjectionKeepsSources ==
  (result.op = RunOp /\ result.success) =>
    /\ Len(inputs) >= 1
    /\ \A f \in ProjectedFields :
         /\ f \in inputs[1].cols
         /\ \A i \in 1..Len(db) : inputs[1].rows[i][f] = db[i][f]
    /\ result.campaigns.success =>
         \A k \in 1..Len(result.campaigns.campaigns) :
           LET c == result.campaigns.campaigns[k] IN
           {c.data_sources[j] : j \in 1..Len(c.data_sources)}
             = {db[i].data_source : i \in EntitiesOf(c)}

CountIn(seq, v) == Cardinality({i \in 1..Len(seq) : seq[i] = v})

FiveComponents ==
  <<"train_clustering_model", "train_anomaly_detection_model",
    "train_target_prediction_model", "analyze_temporal_patterns", CampaignOp>>

\* C23: in one run of train_models_on_attack_data over a non-empty dataset
\* preprocess_data is executed exactly once, and all five components work on
\* that one engineered table.
C23_PreprocessedOnce ==
  (result.op = RunOp /\ result.success) =>
    /\ CountIn(calls, PreprocessOp) = 1
    /\ Len(inputs) = 1

\* C23 (amended): in one run over a non-empty dataset preprocess_data is
\* executed five times, once inside each component, every time on the table
\* built from the stored entities, so that the five engineered tables are
\* equal.
C23_PreprocessedByEach ==
  (result.op = RunOp /\ result.success) =>
    /\ CountIn(calls, PreprocessOp) = 5
    /\ Len(calls) = 10
    /\ \A k \in 1..5 : calls[2 * k - 1] = FiveComponents[k] /\ calls[2 * k] = PreprocessOp
    /\ Len(inputs) = 5
    /\ \A k \in 1..5 :
         /\ inputs[k] = attacks_to_dataframe(get_attacks(db))
         /\ preprocess_data(inputs[k]) = preprocess_data(inputs[1])

\* a run over two events with a missing source, which the engineering imputes
C23_Witness ==
  /\ result.op = RunOp
  /\ result.success
  /\ Len(db) = 2
  /\ db[1].source_country = NaN
  /\ Len(inputs) = 5
  /\ preprocess_data(inputs[5]).rows[1].source_country = Unknown

\* ----------------------------------------------------------- column routing
TrainOps == {ClusteringOp, AnomalyOp, PredictionOp}

\* the columns of an AttackEvent that hold a category
CategoryCols == categorical_features \cup {"severity"}

\* the selected feature columns of the last call
Selected ==
  features \ (NotFeatures \cup (IF result.op = PredictionOp THEN {"target_country"} ELSE {}))

\* C24: in the three train_* operations every selected feature column goes
\* to exactly one of the two transforms; every categorical column among them
\* (attack_type, source_country, target_country, data_source, severity) goes
\* to one-hot encoding, only numeric columns go to standardization, and id,
\* timestamp, created_at and updated_at go to neither.
C24_RoutingFollowsKind ==
  (result.op \in TrainOps /\ preprocessor # None) =>
    /\ preprocessor.num \cap preprocessor.cat = {}
    /\ preprocessor.num \cup preprocessor.cat = Selected
    /\ (preprocessor.num \cup preprocessor.cat) \cap NotFeatures = {}
    /\ Selected \cap CategoryCols \subseteq preprocessor.cat
    /\ preprocessor.num \cap StringCols = {}

\* ---------------------------------------------------------------- the slots
SlotsUnchanged ==
  /\ clustering_model' = clustering_model
  /\ anomaly_model' = anomaly_model
  /\ prediction_model' = prediction_model

\* C25: a train_clustering_model, train_anomaly_detection_model or
\* train_target_prediction_model call that returns success=False leaves the
\* three model slots as they were, also when the step that failed came after
\* the fit.
C25_FailureLeavesSlots ==
  [][(/\ result'.op \in TrainOps
      /\ result'.success = FALSE
      /\ \/ TrainClustering
         \/ TrainAnomaly
         \/ TrainPrediction)
     => SlotsUnchanged]_vars

\* --------------------------------------------------------------- prediction
\* C26: a predict_attack_likelihood call that follows a successful
\* train_target_prediction_model passes to the model every feature column it
\* was trained on, and leaves the known-features list as training recorded it.
C26_PredictKeepsFeatures ==
  [][(/\ result.op = PredictionOp
      /\ result.success
      /\ Predict)
     => /\ features' = features
        /\ result'.success
        /\ prediction_model.columns \subseteq result'.prediction_features]_vars

\* ------------------------------------------------------------------ loading
LoadOp == "load_model"

SlotOf(type) ==
  CASE type = "clustering" -> clustering_model'
    [] type = "anomaly"    -> anomaly_model'
    [] type = "prediction" -> prediction_model'

OtherSlotsUnchanged(type) ==
  /\ type # "clustering" => clustering_model' = clustering_model
  /\ type # "anomaly" => anomaly_model' = anomaly_model
  /\ type # "prediction" => prediction_model' = prediction_model

\* C27: load_model returns True only when model_path exists and model_type
\* is one of the three types, and then puts the stored artifact in the slot
\* of that type and changes neither the other two slots nor the store; when
\* it returns False (missing path, unknown type, unreadable artifact) the
\* three slots are unchanged.
C27_LoadFrame ==
  [][result'.op = LoadOp =>
     \A model_type \in LoadTypes, model_path \in LoadPaths \cup ListedNames,
        readable \in BOOLEAN :
       LoadModelWith(model_type, model_path, readable) =>
         /\ result'.raised = FALSE
         /\ result'.value \in BOOLEAN
         /\ store' = store
         /\ result'.value =>
              /\ model_path \in DOMAIN store
              /\ model_type \in ModelTypes
              /\ SlotOf(model_type) = store[model_path]
              /\ OtherSlotsUnchanged(model_type)
         /\ ~result'.value => SlotsUnchanged
         /\ (model_path \notin DOMAIN store \/ model_type \notin ModelTypes \/ ~readable)
              => ~result'.value]_vars

\* a clustering artifact was loaded into the prediction slot of an analyzer
\* that holds a clustering model
C27_Witness ==
  /\ result.op = LoadOp
  /\ result.value
  /\ prediction_model # None
  /\ prediction_model.kind = "clustering"
  /\ clustering_model # None
  /\ anomaly_model = None

\* the names the last call listed under type, if it was a listing
ListedUnder(type) == IF result.op = ListOp THEN result[type] ELSE {}

\* C28: every name get_available_models lists under a type can be passed
\* unchanged to load_model with that type and is loaded, and so can the
\* model_filename a successful fit returned, which restores the artifact
\* that fit persisted.
C28_ListedNamesLoad ==
  [][result'.op = LoadOp =>
     /\ \A type \in ModelTypes : \A name \in ListedUnder(type) :
          LoadModelWith(type, name, TRUE) => result'.value
     /\ \A k \in 1..Len(fits) :
          (fits[k].saved /\ LoadModelWith(fits[k].type, fits[k].model_filename, TRUE))
            => /\ result'.value
               /\ SlotOf(fits[k].type) = store[fits[k].model_filename]]_vars

\* ----------------------------------------------------------- caller's table
\* C29: preprocess_data, the three train operations, analyze_temporal_patterns
\* and identify_attack_campaign leave the table the caller passed with the
\* columns and values it had, so whatever ran before, an operation is given
\* the same table.
C29_CallerTableUnchanged ==
  [][/\ df' = df
     /\ \A k \in 1..Len(inputs') : inputs'[k] = df]_vars

\* two fits and a preprocess_data call ran on a table with a missing
\* source_country before the campaign identification that has just returned
C29_Witness ==
  /\ Len(fits) = MaxFits
  /\ memo # None
  /\ result.op = CampaignOp
  /\ inputs = <<df>>
  /\ \E i \in 1..Len(df.rows) : df.rows[i].source_country = NaN
  /\ preprocess_data(df) # df

\* ------------------------------------------------------------- orchestration
\* the run failed because the stored events could not be read
RetrievalFailed == result.success = FALSE /\ result.message = DbError

\* the component operations among the operations entered, in order of entry
ComponentsEntered ==
  SelectSeq(calls, LAMBDA op : \E k \in 1..5 : op = FiveComponents[k])

BundleKeys == <<"clustering", "anomaly", "prediction", "temporal", "campaigns">>

\* C30: on a non-empty dataset train_models_on_attack_data invokes the five
\* components once each, in the order clustering, anomaly, prediction,
\* temporal, campaign, whatever the earlier ones returned, and the bundle it
\* returns holds the result of each component, data_size equal to the number
\* of rows and the time of the run.
C30_RunsFiveInOrder ==
  (result.op = RunOp /\ Len(db) > 0 /\ ~RetrievalFailed) =>
    /\ result.success
    /\ ComponentsEntered = FiveComponents
    /\ \A k \in 1..5 :
         /\ result[BundleKeys[k]].op = FiveComponents[k]
         /\ WellFormed(result[BundleKeys[k]])
    /\ result.data_size = Len(db)
    /\ result.timestamp \in 0..now

\* a run over two events whose three fits failed and whose temporal analysis
\* and campaign identification returned all the same
C30_Witness ==
  /\ result.op = RunOp
  /\ result.success
  /\ result.data_size = 2
  /\ result.clustering.success = FALSE
  /\ result.anomaly.success = FALSE
  /\ result.prediction.success = FALSE
  /\ result.temporal.success
  /\ result.campaigns.op = CampaignOp
  /\ Len(calls) = 10

====
